---- MODULE Spec2Model ----
(***************************************************************************)
(* Posts store of the Teacher AI Academy blog backend: PostsService        *)
(* (backend/src/posts.ts) over the Prisma "post" table, and the route      *)
(* handlers that call it (admin CRUD, public reads, n8n webhook, RSS).     *)
(*                                                                         *)
(* Text that the code inspects character by character (title, slug) is a   *)
(* sequence of one-character strings; other text is an opaque string.      *)
(* A request body is a function whose domain is the set of keys present:   *)
(* a key that is absent is JavaScript's undefined.                         *)
(***************************************************************************)
EXTENDS Integers, Sequences, FiniteSets, TLC

VARIABLES store, nextId, last, inflight, env, hits

vars == <<store, nextId, last, inflight, env, hits>>

\* ------------------------------------------------------------------ bounds
\* ids handed out by the store over a run (creates stop after MaxId)
MaxId == 3
\* requests a client sends in a fresh rate-limit window before the model
\* waits for the window to end
MaxHits == 1
\* longest title handed to generateSlug
MaxLen == 3

\* ------------------------------------------------------------- constants
\* posts.ts:180  Math.min(limit, 50)
MaxLimit == 50
\* posts.ts:175  limit = 10
DefaultLimit == 10
\* rateLimit.ts:28  max: 200
AdminRateMax == 200
\* rateLimit.ts:17  max: 50
WebhookRateMax == 50

Null == "<null>"
DefaultAuthor == "Teacher AI Academy"

\* --------------------------------------------------------- JS primitives
\* an object with no keys
NoKeys == <<>>

Has(d, k) == k \in DOMAIN d

\* JavaScript truthiness of d[k]: undefined and the empty string are falsy;
\* arrays and Date objects are truthy whenever present.
Truthy(d, k) ==
  /\ k \in DOMAIN d
  /\ CASE k \in {"title", "slug", "authorization", "x-n8n-secret",
                 "ADMIN_BEARER_TOKEN", "N8N_WEBHOOK_SECRET"} -> d[k] # <<>>
       [] k \in {"tags", "publishedAt"} -> TRUE
       [] OTHER -> d[k] # ""

\* d[k] || dflt
OrElse(d, k, dflt) == IF Truthy(d, k) THEN d[k] ELSE dflt

\* a column written from d[k]: undefined is stored as NULL on insert
OrNull(d, k) == IF Has(d, k) THEN d[k] ELSE Null

\* the keys of f restricted to K
Restrict(f, K) == [k \in (DOMAIN f) \cap K |-> f[k]]

\* ------------------------------------------------------------ generateSlug
UpperCase == <<"A", "B", "C", "P">>
LowerCase == <<"a", "b", "c", "p">>
Digits    == <<"0", "1", "2", "3", "4", "5", "6", "7", "8", "9">>
WhiteSpace == {" ", "\t"}

RECURSIVE IndexOf(_, _, _)
IndexOf(s, c, i) ==
  IF i > Len(s) THEN 0 ELSE IF s[i] = c THEN i ELSE IndexOf(s, c, i + 1)

\* String.prototype.toLowerCase on one character
ToLowerChar(c) ==
  LET i == IndexOf(UpperCase, c, 1) IN IF i = 0 THEN c ELSE LowerCase[i]

ToLowerCase(s) == [i \in 1..Len(s) |-> ToLowerChar(s[i])]

\* [a-z0-9\s-]
SlugKeep(c) ==
  \/ IndexOf(LowerCase, c, 1) # 0
  \/ IndexOf(Digits, c, 1) # 0
  \/ c \in WhiteSpace
  \/ c = "-"

\* .replace(/[^a-z0-9\s-]/g, '')
StripOther(s) == SelectSeq(s, SlugKeep)

\* .replace(/X+/g, '-') for a class X of characters: every maximal run of
\* characters of X becomes one hyphen
RECURSIVE ReplaceRuns(_, _)
ReplaceRuns(s, X) ==
  IF s = <<>> THEN <<>>
  ELSE IF Head(s) \in X
       THEN IF Len(s) > 1 /\ s[2] \in X
            THEN ReplaceRuns(Tail(s), X)
            ELSE <<"-">> \o ReplaceRuns(Tail(s), X)
       ELSE <<Head(s)>> \o ReplaceRuns(Tail(s), X)

\* String.prototype.trim: strips white space (only) from both ends
RECURSIVE TrimStart(_)
TrimStart(s) ==
  IF s # <<>> /\ Head(s) \in WhiteSpace THEN TrimStart(Tail(s)) ELSE s

RECURSIVE TrimEnd(_)
TrimEnd(s) ==
  IF s # <<>> /\ s[Len(s)] \in WhiteSpace
  THEN TrimEnd(SubSeq(s, 1, Len(s) - 1)) ELSE s

Trim(s) == TrimEnd(TrimStart(s))

generateSlug(title) ==
  Trim(ReplaceRuns(ReplaceRuns(StripOther(ToLowerCase(title)), WhiteSpace), {"-"}))

\* ------------------------------------------------------------ tags as JSON
\* JSON.stringify of a string: the string between double quotes.  Tokens of
\* the JSON text are kept apart, so the text is a sequence of tokens.
QuoteTable ==
  [t \in {"t", "u", ",", "]", ""} |->
     CASE t = "t" -> "\"t\""
       [] t = "u" -> "\"u\""
       [] t = "," -> "\",\""
       [] t = "]" -> "\"]\""
       [] t = "" -> "\"\""]
Quote(t) == QuoteTable[t]
Unquote(q) == CHOOSE t \in DOMAIN QuoteTable : QuoteTable[t] = q
IsQuoted(q) == \E t \in DOMAIN QuoteTable : QuoteTable[t] = q

RECURSIVE JoinTokens(_)
JoinTokens(tags) ==
  IF tags = <<>> THEN <<>>
  ELSE IF Len(tags) = 1 THEN <<Quote(tags[1])>>
  ELSE <<Quote(tags[1]), ",">> \o JoinTokens(Tail(tags))

\* (variant) the elements written without their quotes
stringifyTags_Unquoted(tags) ==
  <<"[">> \o (IF tags = <<>> THEN <<>>
              ELSE [i \in 1..(2 * Len(tags) - 1) |->
                      IF i % 2 = 1 THEN tags[(i + 1) \div 2] ELSE ","])
          \o <<"]">>

stringifyTags(tags) == <<"[">> \o JoinTokens(tags) \o <<"]">>

\* the elements of a token list  e ("," e)*; ok is FALSE when it is malformed
RECURSIVE ParseElems(_)
ParseElems(toks) ==
  LET bad == [ok |-> FALSE, elems |-> <<>>] IN
  IF toks = <<>> THEN bad
  ELSE IF ~IsQuoted(toks[1]) THEN bad
  ELSE IF Len(toks) = 1 THEN [ok |-> TRUE, elems |-> <<Unquote(toks[1])>>]
  ELSE IF toks[2] # "," THEN bad
  ELSE LET rest == ParseElems(SubSeq(toks, 3, Len(toks)))
       IN IF rest.ok
          THEN [ok |-> TRUE, elems |-> <<Unquote(toks[1])>> \o rest.elems]
          ELSE bad

\* JSON.parse inside try/catch: malformed text decodes to []
parseTags(tagsJson) ==
  IF Len(tagsJson) < 2 \/ tagsJson[1] # "[" \/ tagsJson[Len(tagsJson)] # "]"
  THEN <<>>
  ELSE IF Len(tagsJson) = 2 THEN <<>>
  ELSE LET e == ParseElems(SubSeq(tagsJson, 2, Len(tagsJson) - 1))
       IN IF e.ok THEN e.elems ELSE <<>>

toPostWithTags(post) == [post EXCEPT !.tags = parseTags(post.tags)]

\* ---------------------------------------------------------- processContent
\* marked(markdown): the renderer, a pure function text -> text
Marked(md) ==
  CASE md = "m" -> "<p>m</p>"
    [] md = "n" -> "<p>n</p>"
    [] OTHER -> ""

processContent(data) ==
  LET md == IF Truthy(data, "contentMarkdown")
            THEN [contentMarkdown |-> data.contentMarkdown] ELSE <<>>
      derived == IF Truthy(data, "contentMarkdown") /\ ~Truthy(data, "contentHtml")
                 THEN [contentHtml |-> Marked(data.contentMarkdown)] ELSE <<>>
      given == IF Truthy(data, "contentHtml")
               THEN [contentHtml |-> data.contentHtml] ELSE <<>>
  IN md @@ given @@ derived

\* ------------------------------------------------------- the "post" table
\* A row of the table: every column of the persisted record.  tags holds
\* the JSON text; the nullable columns hold Null when never written.
Columns == {"id", "title", "slug", "summary", "contentMarkdown", "contentHtml",
            "imageUrl", "tags", "sourceUrl", "author", "publishedAt", "status",
            "createdAt", "updatedAt"}

\* the columns the store fills in on insert: the generated id and the two
\* timestamps it maintains
InsertDefaults(id, now) == [id |-> id, createdAt |-> now, updatedAt |-> now]
\* the column the store refreshes on every update
UpdateDefaults(now) == [updatedAt |-> now]

RowById(s, id) == CHOOSE r \in s : r.id = id
RowBySlug(s, slug) == CHOOSE r \in s : r.slug = slug
HasId(s, id) == \E r \in s : r.id = id
HasSlug(s, slug) == \E r \in s : r.slug = slug

\* (variant) a table with no unique index on slug
SlugTaken_NoIndex(s, slug, except) == FALSE

\* the unique index on slug: another row than `except` holds the slug
SlugTaken(s, slug, except) == \E r \in s : r.slug = slug /\ r.id # except

Ok(s, post) == [err |-> "", store |-> s, post |-> post]
Fail(e, s) == [err |-> e, store |-> s]

\* prisma.post.create({data})
PrismaCreate(s, data, id, now) ==
  LET row == data @@ InsertDefaults(id, now) IN
  IF SlugTaken(s, row.slug, 0)
  THEN Fail("Unique constraint", s)
  ELSE Ok(s \cup {row}, row)

\* (variant) an update that stores the changed row under a new id
PrismaUpdate_NewId(s, id, data, now) ==
  IF ~HasId(s, id) THEN Fail("Record to update not found", s)
  ELSE LET old == RowById(s, id)
           new == [id |-> id + MaxId + 1] @@ data @@ UpdateDefaults(now) @@ old
       IN IF Has(data, "slug") /\ SlugTaken(s, data.slug, id)
          THEN Fail("Unique constraint", s)
          ELSE Ok((s \ {old}) \cup {new}, new)

\* prisma.post.update({where: {id}, data}): a key of data that is undefined
\* (absent) leaves its column alone
PrismaUpdate(s, id, data, now) ==
  IF ~HasId(s, id) THEN Fail("Record to update not found", s)
  ELSE LET old == RowById(s, id)
           new == data @@ UpdateDefaults(now) @@ old
       IN IF Has(data, "slug") /\ SlugTaken(s, data.slug, id)
          THEN Fail("Unique constraint", s)
          ELSE Ok((s \ {old}) \cup {new}, new)

\* (variant) a delete that answers without removing the row
PrismaDelete_KeepsRow(s, id) ==
  IF ~HasId(s, id) THEN Fail("Record to delete does not exist", s)
  ELSE Ok(s, RowById(s, id))

\* prisma.post.delete({where: {id}})
PrismaDelete(s, id) ==
  IF ~HasId(s, id) THEN Fail("Record to delete does not exist", s)
  ELSE Ok(s \ {RowById(s, id)}, RowById(s, id))

\* prisma.post.findUnique({where})
FindUniqueById(s, id) == IF HasId(s, id) THEN {RowById(s, id)} ELSE {}
FindUniqueBySlug(s, slug) == IF HasSlug(s, slug) THEN {RowBySlug(s, slug)} ELSE {}

\* (variant) an upsert that removes the row of the slug and inserts anew
PrismaUpsert_Replace(s, slug, update, create, id, now) ==
  PrismaCreate({r \in s : r.slug # slug}, create, id, now)

\* prisma.post.upsert({where: {slug}, update, create}) run as one statement
PrismaUpsert(s, slug, update, create, id, now) ==
  IF HasSlug(s, slug)
  THEN PrismaUpdate(s, RowBySlug(s, slug).id, update, now)
  ELSE PrismaCreate(s, create, id, now)

\* ------------------------------------------------------------ PostsService
WithTags(r) == IF r.err = "" THEN [r EXCEPT !.post = toPostWithTags(r.post)] ELSE r

\* the data object of prisma.post.create in createPost
CreateData(data, now) ==
  LET content == processContent(data) IN
  [title |-> data.title,
   slug |-> OrElse(data, "slug", generateSlug(data.title)),
   summary |-> OrNull(data, "summary"),
   contentMarkdown |-> OrElse(content, "contentMarkdown", ""),
   contentHtml |-> OrNull(content, "contentHtml"),
   imageUrl |-> OrNull(data, "imageUrl"),
   tags |-> stringifyTags(IF Truthy(data, "tags") THEN data.tags ELSE <<>>),
   sourceUrl |-> OrNull(data, "sourceUrl"),
   author |-> OrElse(data, "author", DefaultAuthor),
   publishedAt |-> OrElse(data, "publishedAt", now),
   status |-> OrElse(data, "status", "PUBLISHED")]

createPost(s, data, id, now) ==
  WithTags(PrismaCreate(s, CreateData(data, now), id, now))

\* updateData of updatePost: {...data, ...content}, tags as JSON text
UpdateData(data) ==
  LET spread == processContent(data) @@ data IN
  IF Truthy(data, "tags")
  THEN [tags |-> stringifyTags(data.tags)] @@ spread
  ELSE spread

updatePost(s, id, data, now) == WithTags(PrismaUpdate(s, id, UpdateData(data), now))

deletePost(s, id) == PrismaDelete(s, id)

getPostById(s, id) == {toPostWithTags(r) : r \in FindUniqueById(s, id)}

getPostBySlug(s, slug) == {toPostWithTags(r) : r \in FindUniqueBySlug(s, slug)}

\* (variant) an update object that writes tags only when the data has them
UpsertUpdateData_KeepTags(data, now) ==
  LET content == processContent(data) IN
  [title |-> data.title,
   contentMarkdown |-> OrElse(content, "contentMarkdown", ""),
   author |-> OrElse(data, "author", DefaultAuthor),
   publishedAt |-> OrElse(data, "publishedAt", now),
   status |-> OrElse(data, "status", "PUBLISHED")]
  @@ (IF Truthy(data, "tags") THEN [tags |-> stringifyTags(data.tags)] ELSE NoKeys)
  @@ Restrict(data, {"summary", "imageUrl", "sourceUrl"})
  @@ Restrict(content, {"contentHtml"})

\* the update object of prisma.post.upsert in upsertPostBySlug: the keys
\* whose value is undefined are not written
UpsertUpdateData(data, now) ==
  LET content == processContent(data) IN
  [title |-> data.title,
   contentMarkdown |-> OrElse(content, "contentMarkdown", ""),
   tags |-> stringifyTags(IF Truthy(data, "tags") THEN data.tags ELSE <<>>),
   author |-> OrElse(data, "author", DefaultAuthor),
   publishedAt |-> OrElse(data, "publishedAt", now),
   status |-> OrElse(data, "status", "PUBLISHED")]
  @@ Restrict(data, {"summary", "imageUrl", "sourceUrl"})
  @@ Restrict(content, {"contentHtml"})

\* (variant) a create object that leaves author and status without defaults
UpsertCreateData_NoDefaults(data, now) ==
  LET content == processContent(data) IN
  [title |-> data.title,
   slug |-> OrElse(data, "slug", generateSlug(data.title)),
   summary |-> OrNull(data, "summary"),
   contentMarkdown |-> OrElse(content, "contentMarkdown", ""),
   contentHtml |-> OrNull(content, "contentHtml"),
   imageUrl |-> OrNull(data, "imageUrl"),
   tags |-> stringifyTags(IF Truthy(data, "tags") THEN data.tags ELSE <<>>),
   sourceUrl |-> OrNull(data, "sourceUrl"),
   author |-> OrNull(data, "author"),
   publishedAt |-> OrElse(data, "publishedAt", now),
   status |-> OrNull(data, "status")]

\* the create object of prisma.post.upsert in upsertPostBySlug
UpsertCreateData(data, now) ==
  LET content == processContent(data) IN
  [title |-> data.title,
   slug |-> OrElse(data, "slug", generateSlug(data.title)),
   summary |-> OrNull(data, "summary"),
   contentMarkdown |-> OrElse(content, "contentMarkdown", ""),
   contentHtml |-> OrNull(content, "contentHtml"),
   imageUrl |-> OrNull(data, "imageUrl"),
   tags |-> stringifyTags(IF Truthy(data, "tags") THEN data.tags ELSE <<>>),
   sourceUrl |-> OrNull(data, "sourceUrl"),
   author |-> OrElse(data, "author", DefaultAuthor),
   publishedAt |-> OrElse(data, "publishedAt", now),
   status |-> OrElse(data, "status", "PUBLISHED")]

UpsertSlug(data) == OrElse(data, "slug", generateSlug(data.title))

upsertPostBySlug(s, data, id, now) ==
  WithTags(PrismaUpsert(s, UpsertSlug(data), UpsertUpdateData(data, now),
                        UpsertCreateData(data, now), id, now))

\* ------------------------------------------------------------------- reads
\* code points order the characters of a text column
Alphabet == <<"\t", " ", "!", "-", "0", "1", "2", "3", "4", "5", "6", "7",
              "8", "9", "A", "B", "C", "P", "a", "b", "c", "p">>
CharCode(c) == IndexOf(Alphabet, c, 1)

RECURSIVE TextLess(_, _)
TextLess(a, b) ==
  IF b = <<>> THEN FALSE
  ELSE IF a = <<>> THEN TRUE
  ELSE IF CharCode(a[1]) # CharCode(b[1]) THEN CharCode(a[1]) < CharCode(b[1])
  ELSE TextLess(Tail(a), Tail(b))

KeyLess(x, y, orderBy) ==
  IF orderBy = "title" THEN TextLess(x.title, y.title) ELSE x[orderBy] < y[orderBy]

\* x comes strictly before y in the ordering asked for
Before(x, y, orderBy, order) ==
  IF order = "asc" THEN KeyLess(x, y, orderBy) ELSE KeyLess(y, x, orderBy)

\* where: {status} or {}
Matches(r, where) == \A k \in DOMAIN where : r[k] = where[k]

\* every sequence the store may return for ORDER BY orderBy order, when rows
\* tie on the key: they come in an order the store chooses
RECURSIVE TiedScans(_, _, _)
TiedScans(S, orderBy, order) ==
  IF S = {} THEN {<<>>}
  ELSE LET first == {r \in S : \A q \in S : ~Before(q, r, orderBy, order)}
       IN UNION {{<<r>> \o rest : rest \in TiedScans(S \ {r}, orderBy, order)} :
                   r \in first}

\* x put at its place in a sequence that is in order
InsertRow(x, seq, orderBy, order) ==
  LET pos == Cardinality({i \in 1..Len(seq) : ~Before(x, seq[i], orderBy, order)})
  IN SubSeq(seq, 1, pos) \o <<x>> \o SubSeq(seq, pos + 1, Len(seq))

\* the one sequence when no two rows tie on the key: the rows of S put one
\* by one into acc, which is in order
RECURSIVE SortRows(_, _, _, _)
SortRows(S, acc, orderBy, order) ==
  IF S = {} \/ Len(acc) < 0 THEN acc
  ELSE LET x == CHOOSE r \in S : TRUE
       IN SortRows(S \ {x}, InsertRow(x, acc, orderBy, order), orderBy, order)

Scans(S, orderBy, order) ==
  IF \A x \in S : \A y \in S : x[orderBy] = y[orderBy] => x = y
  THEN {SortRows(S, <<>>, orderBy, order)}
  ELSE TiedScans(S, orderBy, order)

Min(a, b) == IF a < b THEN a ELSE b
Max(a, b) == IF a > b THEN a ELSE b

\* skip and take applied to one scan; a negative take counts from the end
Window(scan, skip, take) ==
  IF take >= 0
  THEN SubSeq(scan, skip + 1, Min(Len(scan), skip + take))
  ELSE SubSeq(scan, Max(1, Len(scan) - skip + take + 1), Len(scan) - skip)

\* prisma.post.findMany({where, skip, take, orderBy}): the possible answers;
\* a negative skip is rejected
FindMany(s, where, skip, take, orderBy, order) ==
  IF skip < 0 THEN {[err |-> "Invalid value for skip", rows |-> <<>>]}
  ELSE {[err |-> "", rows |-> Window(scan, skip, take)] :
          scan \in Scans({r \in s : Matches(r, where)}, orderBy, order)}

\* prisma.post.count({where})
Count(s, where) == Cardinality({r \in s : Matches(r, where)})

MapTags(rows) == [i \in 1..Len(rows) |-> toPostWithTags(rows[i])]

\* (variant) getPosts with the length of the page as its total
getPosts_TotalOfPage(s, options) ==
  LET status == IF Has(options, "status") THEN options.status ELSE "PUBLISHED"
      page == IF Has(options, "page") THEN options.page ELSE 1
      limit == IF Has(options, "limit") THEN options.limit ELSE DefaultLimit
      orderBy == IF Has(options, "orderBy") THEN options.orderBy ELSE "publishedAt"
      order == IF Has(options, "order") THEN options.order ELSE "desc"
      maxLimit == Min(limit, MaxLimit)
      skip == (page - 1) * maxLimit
      where == IF status # "" THEN [status |-> status] ELSE <<>>
  IN {IF f.err # "" THEN [err |-> f.err]
      ELSE [err |-> "",
            items |-> MapTags(f.rows),
            page |-> page,
            total |-> Len(f.rows),
            hasMore |-> skip + maxLimit < Count(s, where)] :
        f \in FindMany(s, where, skip, maxLimit, orderBy, order)}

\* getPosts(options): the possible results
getPosts(s, options) ==
  LET status == IF Has(options, "status") THEN options.status ELSE "PUBLISHED"
      page == IF Has(options, "page") THEN options.page ELSE 1
      limit == IF Has(options, "limit") THEN options.limit ELSE DefaultLimit
      orderBy == IF Has(options, "orderBy") THEN options.orderBy ELSE "publishedAt"
      order == IF Has(options, "order") THEN options.order ELSE "desc"
      maxLimit == Min(limit, MaxLimit)
      skip == (page - 1) * maxLimit
      where == IF status # "" THEN [status |-> status] ELSE <<>>
  IN {IF f.err # "" THEN [err |-> f.err]
      ELSE [err |-> "",
            items |-> MapTags(f.rows),
            page |-> page,
            total |-> Count(s, where),
            hasMore |-> skip + maxLimit < Count(s, where)] :
        f \in FindMany(s, where, skip, maxLimit, orderBy, order)}

\* getPublishedPostsForRSS(limit): the possible results
getPublishedPostsForRSS(s, limit) ==
  {IF f.err # "" THEN [err |-> f.err] ELSE [err |-> "", items |-> MapTags(f.rows)] :
     f \in FindMany(s, [status |-> "PUBLISHED"], 0, limit, "publishedAt", "desc")}

\* parseInt(req.query[k]) || dflt: a query is a function from the keys given
\* to their integer value, a key that is absent or not a number parsing to NaN
ParseIntOr(query, k, dflt) == IF Has(query, k) /\ query[k] # 0 THEN query[k] ELSE dflt

\* GET /api/posts: the possible responses
PublicList(s, query) ==
  LET page == ParseIntOr(query, "page", 1)
      limit == Min(ParseIntOr(query, "limit", 10), 50)
      orderBy == IF Has(query, "orderBy") THEN query.orderBy ELSE "publishedAt"
      order == IF Has(query, "order") THEN query.order ELSE "desc"
  IN {IF r.err # "" THEN [code |-> 500] ELSE [code |-> 200, data |-> r] :
        r \in getPosts(s, [status |-> "PUBLISHED", page |-> page, limit |-> limit,
                           orderBy |-> orderBy, order |-> order])}

\* GET /api/admin/posts: the possible responses
AdminList(s, query) ==
  LET page == ParseIntOr(query, "page", 1)
      limit == ParseIntOr(query, "limit", 10)
      status == IF Has(query, "status") THEN [status |-> query.status] ELSE NoKeys
      orderBy == IF Has(query, "orderBy") THEN query.orderBy ELSE "publishedAt"
      order == IF Has(query, "order") THEN query.order ELSE "desc"
  IN {IF r.err # "" THEN [code |-> 500] ELSE [code |-> 200, data |-> r] :
        r \in getPosts(s, status @@ [page |-> page, limit |-> limit,
                                     orderBy |-> orderBy, order |-> order])}

\* (variant) the route without its status check
PublicGetBySlug_AnyStatus(s, slug) ==
  LET found == getPostBySlug(s, slug) IN
  IF found = {} THEN [code |-> 404]
  ELSE [code |-> 200, data |-> CHOOSE p \in found : TRUE]

\* GET /api/posts/:slug
PublicGetBySlug(s, slug) ==
  LET found == getPostBySlug(s, slug) IN
  IF found = {} THEN [code |-> 404]
  ELSE LET post == CHOOSE p \in found : TRUE IN
       IF post.status # "PUBLISHED" THEN [code |-> 404]
       ELSE [code |-> 200, data |-> post]

RssDefaultLimit == 50
RssMaxLimit == 100

\* GET /api/rss: the posts of the possible feeds
RssFeed(s, query) ==
  LET limit == Min(ParseIntOr(query, "limit", RssDefaultLimit), RssMaxLimit)
  IN {IF r.err # "" THEN [code |-> 500] ELSE [code |-> 200, items |-> r.items] :
        r \in getPublishedPostsForRSS(s, limit)}

\* ---------------------------------------------------------- route handlers
\* createPostSchema.parse / updatePostSchema.parse / n8nWebhookSchema.parse:
\* zod keeps the keys of the schema and drops the others
CreateKeys == {"title", "slug", "summary", "contentMarkdown", "contentHtml",
               "imageUrl", "tags", "sourceUrl", "author", "publishedAt", "status"}
WebhookKeys == CreateKeys \ {"author", "status"}

ValidCreate(body) == Has(body, "title") /\ Len(body.title) >= 1
ValidUpdate(body) == Has(body, "title") => Len(body.title) >= 1

Response(op, code) == [op |-> op, code |-> code]

\* (variant) the handler without the 'Unique constraint' branch of its catch
AdminCreate_No409(body, now) ==
  /\ UNCHANGED inflight
  /\ IF ~ValidCreate(body)
     THEN /\ last' = Response("create", 400)
          /\ UNCHANGED <<store, nextId>>
     ELSE   LET r == createPost(store, Restrict(body, CreateKeys), nextId, now) IN
            /\ r.err = "" => nextId <= MaxId
            /\ store' = r.store
            /\ nextId' = IF r.err = "" THEN nextId + 1 ELSE nextId
            /\ last' = Response("create", IF r.err = "" THEN 201 ELSE 500)

\* POST /api/admin/posts; now is the clock's reading (new Date())
AdminCreate(body, now) ==
  /\ UNCHANGED inflight
  /\ IF ~ValidCreate(body)
     THEN /\ last' = Response("create", 400)
          /\ UNCHANGED <<store, nextId>>
     ELSE   LET r == createPost(store, Restrict(body, CreateKeys), nextId, now) IN
            /\ r.err = "" => nextId <= MaxId
            /\ store' = r.store
            /\ nextId' = IF r.err = "" THEN nextId + 1 ELSE nextId
            /\ last' = Response("create",
                 CASE r.err = "" -> 201
                   [] r.err = "Unique constraint" -> 409
                   [] OTHER -> 500)

\* (variant) the handler without the 'Unique constraint' branch of its catch
AdminUpdate_No409(id, body, now) ==
  /\ UNCHANGED <<inflight, nextId>>
  /\ IF ~ValidUpdate(body)
     THEN /\ last' = Response("update", 400)
          /\ UNCHANGED store
     ELSE LET r == updatePost(store, id, Restrict(body, CreateKeys), now) IN
          /\ store' = r.store
          /\ last' = Response("update",
               CASE r.err = "" -> 200
                 [] r.err = "Record to update not found" -> 404
                 [] OTHER -> 500)

\* PUT /api/admin/posts/:id
AdminUpdate(id, body, now) ==
  /\ UNCHANGED <<inflight, nextId>>
  /\ IF ~ValidUpdate(body)
     THEN /\ last' = Response("update", 400)
          /\ UNCHANGED store
     ELSE LET r == updatePost(store, id, Restrict(body, CreateKeys), now) IN
          /\ store' = r.store
          /\ last' = Response("update",
               CASE r.err = "" -> 200
                 [] r.err = "Record to update not found" -> 404
                 [] r.err = "Unique constraint" -> 409
                 [] OTHER -> 500)

\* (variant) the handler without the 'Record to delete does not exist' branch
AdminDelete_No404(id) ==
  /\ UNCHANGED <<inflight, nextId>>
  /\ LET r == deletePost(store, id) IN
     /\ store' = r.store
     /\ last' = Response("delete", IF r.err = "" THEN 200 ELSE 500)

\* DELETE /api/admin/posts/:id
AdminDelete(id) ==
  /\ UNCHANGED <<inflight, nextId>>
  /\ LET r == deletePost(store, id) IN
     /\ store' = r.store
     /\ last' = Response("delete",
          CASE r.err = "" -> 200
            [] r.err = "Record to delete does not exist" -> 404
            [] OTHER -> 500)

\* the response to a webhook request, with the request's body beside it
WebhookResponse(code, body) == [op |-> "webhook", code |-> code, body |-> body]

\* the data the webhook handler passes to upsertPostBySlug
WebhookData(body) == [status |-> "PUBLISHED"] @@ Restrict(body, WebhookKeys)

\* POST /api/webhook/n8n, the upsert run by the store as one statement
Webhook(body, now) ==
  /\ UNCHANGED inflight
  /\ IF ~ValidCreate(body)
     THEN /\ last' = WebhookResponse(400, body)
          /\ UNCHANGED <<store, nextId>>
     ELSE LET data == WebhookData(body)
              created == ~HasSlug(store, UpsertSlug(data))
              r == upsertPostBySlug(store, data, nextId, now) IN
          /\ created => nextId <= MaxId
          /\ store' = r.store
          /\ nextId' = IF created /\ r.err = "" THEN nextId + 1 ELSE nextId
          /\ last' = WebhookResponse(IF r.err = "" THEN 200 ELSE 500, body)

\* POST /api/webhook/n8n when the client's engine runs the upsert as a lookup
\* followed by a write: the handler of request p up to the lookup by slug
WebhookBegin(p, body, now) ==
  /\ ~\E f \in inflight : f.proc = p
  /\ UNCHANGED <<store, nextId>>
  /\ IF ~ValidCreate(body)
     THEN /\ last' = WebhookResponse(400, body)
          /\ UNCHANGED inflight
     ELSE LET found == FindUniqueBySlug(store, UpsertSlug(WebhookData(body))) IN
          /\ inflight' = inflight \cup
               {[proc |-> p, body |-> body, now |-> now,
                 found |-> {r.id : r \in found}]}
          /\ UNCHANGED last

\* ... and from the write to the response: an insert when the lookup found
\* no row, an update of the row found otherwise
WebhookEnd(p) ==
  \E f \in inflight :
    /\ f.proc = p
    /\ LET data == WebhookData(f.body)
           r == IF f.found = {}
                THEN PrismaCreate(store, UpsertCreateData(data, f.now), nextId, f.now)
                ELSE PrismaUpdate(store, CHOOSE id \in f.found : TRUE,
                                  UpsertUpdateData(data, f.now), f.now) IN
       /\ (f.found = {} /\ r.err = "") => nextId <= MaxId
       /\ store' = r.store
       /\ nextId' = IF f.found = {} /\ r.err = "" THEN nextId + 1 ELSE nextId
       /\ last' = WebhookResponse(IF r.err = "" THEN 200 ELSE 500, f.body)
       /\ inflight' = inflight \ {f}

\* the response to a read, with the request's query beside it
ReadResponse(op, query, resp) == [op |-> op, query |-> query] @@ resp

\* GET /api/posts
PublicListReq(query) ==
  /\ UNCHANGED <<store, nextId, inflight>>
  /\ \E resp \in PublicList(store, query) : last' = ReadResponse("publicList", query, resp)

\* GET /api/admin/posts
AdminListReq(query) ==
  /\ UNCHANGED <<store, nextId, inflight>>
  /\ \E resp \in AdminList(store, query) : last' = ReadResponse("adminList", query, resp)

\* GET /api/rss
RssReq(query) ==
  /\ UNCHANGED <<store, nextId, inflight>>
  /\ \E resp \in RssFeed(store, query) : last' = ReadResponse("rss", query, resp)

\* GET /api/admin/posts/:id: the response
AdminGet(s, id) ==
  LET found == getPostById(s, id) IN
  IF found = {} THEN [code |-> 404]
  ELSE [code |-> 200, data |-> CHOOSE p \in found : TRUE]

AdminGetReq(id) ==
  /\ UNCHANGED <<store, nextId, inflight>>
  /\ last' = ReadResponse("adminGet", [id |-> id], AdminGet(store, id))

\* -------------------------------------------------------------- middleware
\* A header value and a configured secret are sequences of characters; env
\* is process.env, a key that is absent being undefined.
Bearer == <<"B", "e", "a", "r", "e", "r", " ">>

StartsWith(h, prefix) == Len(h) >= Len(prefix) /\ SubSeq(h, 1, Len(prefix)) = prefix

Substring(h, n) == SubSeq(h, n + 1, Len(h))

\* (variant) requireAuth without the comparison of the token
requireAuth_AnyToken(headers, e) ==
  IF ~Truthy(e, "ADMIN_BEARER_TOKEN") THEN 500
  ELSE IF ~Truthy(headers, "authorization")
          \/ ~StartsWith(headers.authorization, Bearer) THEN 401
  ELSE 0

\* (variant) requireAuth without the check that a token is configured
requireAuth_NoTokenCheck(headers, e) ==
  IF ~Truthy(headers, "authorization")
     \/ ~StartsWith(headers.authorization, Bearer) THEN 401
  ELSE IF ~Has(e, "ADMIN_BEARER_TOKEN") THEN 401
  ELSE IF Substring(headers.authorization, 7) # e.ADMIN_BEARER_TOKEN THEN 401
  ELSE 0

\* requireAuth: the status it answers with, 0 standing for next()
requireAuth(headers, e) ==
  IF ~Truthy(e, "ADMIN_BEARER_TOKEN") THEN 500
  ELSE IF ~Truthy(headers, "authorization")
          \/ ~StartsWith(headers.authorization, Bearer) THEN 401
  ELSE IF Substring(headers.authorization, 7) # e.ADMIN_BEARER_TOKEN THEN 401
  ELSE 0

\* (variant) requireWebhookSecret without the comparison of the secret
requireWebhookSecret_AnySecret(headers, e) ==
  IF ~Truthy(e, "N8N_WEBHOOK_SECRET") THEN 500
  ELSE IF ~Truthy(headers, "x-n8n-secret") THEN 401
  ELSE 0

\* requireWebhookSecret: the status it answers with, 0 standing for next()
requireWebhookSecret(headers, e) ==
  IF ~Truthy(e, "N8N_WEBHOOK_SECRET") THEN 500
  ELSE IF ~Truthy(headers, "x-n8n-secret") THEN 401
  ELSE IF headers["x-n8n-secret"] # e.N8N_WEBHOOK_SECRET THEN 401
  ELSE 0

\* rateLimit({ max }): the client's requests of the window are counted, this
\* one included, and the request is refused once the count is above max (a
\* count above max is kept as max + 1)
Hit(h, limiter, max) == [h EXCEPT ![limiter] = Min(@ + 1, max + 1)]
OverLimit(h, limiter, max) == h[limiter] + 1 > max

\* the counts the model follows: the first MaxHits requests of a window and
\* the requests from the last one allowed on
Followed(h, limiter, max) == h[limiter] < MaxHits \/ h[limiter] >= max - 1

NoHits == [admin |-> 0, webhook |-> 0]

\* a response of a middleware, which ends the request
Rejected(router, code) ==
  /\ last' = Response(router, code)
  /\ UNCHANGED <<store, nextId, inflight>>

\* the admin router: adminRateLimit, requireAuth, then the route's callback
AdminRouter(headers, Callback) ==
  /\ Followed(hits, "admin", AdminRateMax)
  /\ hits' = Hit(hits, "admin", AdminRateMax)
  /\ UNCHANGED env
  /\ IF OverLimit(hits, "admin", AdminRateMax) THEN Rejected("adminRouter", 429)
     ELSE IF requireAuth(headers, env) # 0
     THEN Rejected("adminRouter", requireAuth(headers, env))
     ELSE Callback

\* the webhook router: webhookRateLimit, requireWebhookSecret, then the callback
WebhookRouter(headers, Callback) ==
  /\ Followed(hits, "webhook", WebhookRateMax)
  /\ hits' = Hit(hits, "webhook", WebhookRateMax)
  /\ UNCHANGED env
  /\ IF OverLimit(hits, "webhook", WebhookRateMax) THEN Rejected("webhookRouter", 429)
     ELSE IF requireWebhookSecret(headers, env) # 0
     THEN Rejected("webhookRouter", requireWebhookSecret(headers, env))
     ELSE Callback

\* windowMs has passed: the counts start again
WindowReset ==
  /\ hits # NoHits
  /\ hits' = NoHits
  /\ UNCHANGED <<store, nextId, last, inflight, env>>

\* ------------------------------------------------------------------ inputs
\* the configuration of a deployment that has both secrets set
ConfiguredEnv == [ADMIN_BEARER_TOKEN |-> <<"T">>, N8N_WEBHOOK_SECRET |-> <<"S">>]

Ids == 1..(MaxId + 1)

\* bodies that vary the identity of a post: title, slug and status
SlugCreateBodies ==
  {[title |-> t, contentMarkdown |-> "m"] @@ s @@ st :
     t \in {<<"A">>, <<"b">>},
     s \in {NoKeys, [slug |-> <<"b">>], [slug |-> <<>>]},
     st \in {NoKeys, [status |-> "DRAFT"]}}
  \cup {[title |-> <<>>, contentMarkdown |-> "m"]}

SlugUpdateBodies ==
  {NoKeys, [slug |-> <<"a">>], [slug |-> <<"b">>],
   [status |-> "DRAFT"], [status |-> "PUBLISHED"],
   [title |-> <<"b">>], [title |-> <<>>]}

\* readings of the clock
SlugTimes == {1}

SlugWebhookBodies ==
  {[title |-> t, contentMarkdown |-> "m"] @@ s @@ st :
     t \in {<<"A">>, <<"b">>},
     s \in {NoKeys, [slug |-> <<"b">>]},
     st \in {NoKeys, [status |-> "DRAFT"]}}
  \cup {[contentMarkdown |-> "m"]}

\* ----------------------------------------------------------- specification
\* The specifications below other than SpecAuth follow the requests that
\* the routers' middleware let through: their steps are the callbacks.
Init ==
  /\ store = {}
  /\ nextId = 1
  /\ last = Response("none", 0)
  /\ inflight = {}
  /\ env = ConfiguredEnv
  /\ hits = NoHits

Passed(Callback) == Callback /\ UNCHANGED <<env, hits>>

Next ==
  \/ \E body \in SlugCreateBodies, now \in SlugTimes : Passed(AdminCreate(body, now))
  \/ \E id \in Ids, body \in SlugUpdateBodies, now \in SlugTimes :
       Passed(AdminUpdate(id, body, now))
  \/ \E id \in Ids : Passed(AdminDelete(id))
  \/ \E body \in SlugWebhookBodies, now \in SlugTimes : Passed(Webhook(body, now))

Spec == Init /\ [][Next]_vars

\* bodies that vary the fields of a post
FieldCreateBodies ==
  {[title |-> <<"A">>],
   [title |-> <<"A">>, contentMarkdown |-> "m"],
   [title |-> <<"A">>, contentMarkdown |-> "m", contentHtml |-> "h",
    summary |-> "s", imageUrl |-> "u", sourceUrl |-> "v", tags |-> <<"t">>,
    author |-> "x", publishedAt |-> 2, status |-> "DRAFT"]}

FieldUpdateBodies ==
  {NoKeys,
   [contentMarkdown |-> "n"],
   [contentMarkdown |-> "n", contentHtml |-> "k"],
   [contentMarkdown |-> ""],
   [contentMarkdown |-> "n", contentHtml |-> ""],
   [contentHtml |-> "k"],
   [summary |-> "s", tags |-> <<"t">>],
   [tags |-> <<>>],
   [author |-> "x", publishedAt |-> 2, imageUrl |-> "u", sourceUrl |-> "v",
    status |-> "DRAFT"]}

FieldWebhookBodies ==
  {[title |-> <<"A">>],
   [title |-> <<"A">>, contentMarkdown |-> "n"],
   [title |-> <<"a">>, contentMarkdown |-> "n", contentHtml |-> "k",
    summary |-> "s", imageUrl |-> "u", sourceUrl |-> "v", tags |-> <<"t", "u">>,
    author |-> "x", publishedAt |-> 2, status |-> "DRAFT"]}

FieldTimes == {1, 2}

NextFields ==
  \/ \E body \in FieldCreateBodies, now \in FieldTimes : Passed(AdminCreate(body, now))
  \/ \E id \in Ids, body \in FieldUpdateBodies, now \in FieldTimes :
       Passed(AdminUpdate(id, body, now))
  \/ \E id \in Ids : Passed(AdminDelete(id))
  \/ \E body \in FieldWebhookBodies, now \in FieldTimes : Passed(Webhook(body, now))

SpecFields == Init /\ [][NextFields]_vars

\* two webhook requests in flight
Procs == {1, 2}

ConcWebhookBodies ==
  {[title |-> <<"A">>, contentMarkdown |-> "m"],
   [title |-> <<"a">>, contentMarkdown |-> "n"],
   [title |-> <<"b">>, contentMarkdown |-> "m"]}

NextConc ==
  \/ \E p \in Procs, body \in ConcWebhookBodies, now \in SlugTimes :
       Passed(WebhookBegin(p, body, now))
  \/ \E p \in Procs : Passed(WebhookEnd(p))
  \/ \E body \in ConcWebhookBodies, now \in SlugTimes : Passed(Webhook(body, now))

SpecConc == Init /\ [][NextConc]_vars

\* stores to list: nPublished PUBLISHED posts followed by nDraft DRAFT posts,
\* each as createPost stores it, with distinct titles and publication times
ListPublished == {0, 1, 3, 25, 52}
ListDrafts == {0, 5}

ListTitle(i) == <<"p", Digits[(i \div 10) + 1], Digits[(i % 10) + 1]>>

ListRow(i, status) ==
  CreateData([title |-> ListTitle(i), contentMarkdown |-> "m",
              publishedAt |-> i, status |-> status], i)
  @@ InsertDefaults(i, i)

ListStore(nPublished, nDraft) ==
  {ListRow(i, "PUBLISHED") : i \in 1..nPublished}
  \cup {ListRow(i, "DRAFT") : i \in (nPublished + 1)..(nPublished + nDraft)}

ListQueryValues ==
  {p @@ l : p \in {NoKeys, [page |-> 1], [page |-> 2], [page |-> 3], [page |-> 6]},
            l \in {NoKeys, [limit |-> -60], [limit |-> -5], [limit |-> 0], [limit |-> 1],
                   [limit |-> 10], [limit |-> 50], [limit |-> 51], [limit |-> 100]}}
  \cup {p @@ l @@ s : p \in {NoKeys, [page |-> 2]},
                      l \in {NoKeys, [limit |-> 1], [limit |-> 51]},
                      s \in {[status |-> "DRAFT"], [status |-> "PUBLISHED"],
                             [status |-> ""]}}

InitList ==
  /\ \E nPublished \in ListPublished, nDraft \in ListDrafts :
       /\ store = ListStore(nPublished, nDraft)
       /\ nextId = nPublished + nDraft + 1
  /\ last = Response("none", 0)
  /\ inflight = {}
  /\ env = ConfiguredEnv
  /\ hits = NoHits

\* a read leaves the store as it is: one request per store shows every
\* response the store can give
NextList ==
  \/ \E query \in ListQueryValues : last.op = "none" /\ Passed(PublicListReq(query))
  \/ \E query \in ListQueryValues : last.op = "none" /\ Passed(AdminListReq(query))
  \/ \E query \in ListQueryValues : last.op = "none" /\ Passed(RssReq(query))

\* requests with and without credentials, under each configuration
AdminHeaders ==
  {NoKeys,
   [authorization |-> Bearer \o <<"T">>],
   [authorization |-> Bearer \o <<"X">>],
   [authorization |-> Bearer],
   [authorization |-> <<"T">>],
   [authorization |-> <<"b", "e", "a", "r", "e", "r", " ", "T">>]}

WebhookHeaders ==
  {NoKeys, "x-n8n-secret" :> <<"S">>, "x-n8n-secret" :> <<"X">>,
   "x-n8n-secret" :> <<>>}

AuthEnvs ==
  {ConfiguredEnv, NoKeys,
   [ADMIN_BEARER_TOKEN |-> <<>>, N8N_WEBHOOK_SECRET |-> <<>>]}

AuthCreateBodies == {[title |-> <<"A">>, contentMarkdown |-> "m"]}
AuthUpdateBodies == {[status |-> "DRAFT"]}
AuthWebhookBodies == {[title |-> <<"A">>, contentMarkdown |-> "n"]}
AuthQueries == {NoKeys}
AuthTimes == {1}

InitAuth ==
  /\ store = {}
  /\ nextId = 1
  /\ last = Response("none", 0)
  /\ inflight = {}
  /\ env \in AuthEnvs
  /\ hits \in {NoHits, [admin |-> AdminRateMax - 1, webhook |-> WebhookRateMax - 1]}

NextAuth ==
  \/ \E headers \in AdminHeaders, body \in AuthCreateBodies, now \in AuthTimes :
       AdminRouter(headers, AdminCreate(body, now))
  \/ \E headers \in AdminHeaders, id \in Ids, body \in AuthUpdateBodies,
        now \in AuthTimes :
       AdminRouter(headers, AdminUpdate(id, body, now))
  \/ \E headers \in AdminHeaders, id \in Ids : AdminRouter(headers, AdminDelete(id))
  \/ \E headers \in AdminHeaders, query \in AuthQueries :
       AdminRouter(headers, AdminListReq(query))
  \/ \E headers \in AdminHeaders, id \in Ids : AdminRouter(headers, AdminGetReq(id))
  \/ \E headers \in WebhookHeaders, body \in AuthWebhookBodies, now \in AuthTimes :
       WebhookRouter(headers, Webhook(body, now))
  \/ WindowReset

SpecAuth == InitAuth /\ [][NextAuth]_vars

\* bodies that vary the content and the tags of a post
ContentCreateBodies ==
  {[title |-> <<"A">>] @@ c : c \in
     {NoKeys,
      [contentMarkdown |-> "m"],
      [contentMarkdown |-> " "],
      [contentMarkdown |-> ""],
      [contentMarkdown |-> "m", contentHtml |-> "h"],
      [contentMarkdown |-> "m", contentHtml |-> ""],
      [contentHtml |-> "h"]}}
  \cup
  {[title |-> <<"A">>, contentMarkdown |-> "m", tags |-> tags] : tags \in
     {<<>>, <<"t">>, <<"t", "u">>, <<"u", "t">>, <<"t", "t">>, <<",", "]", "">>}}

ContentUpdateBodies ==
  {[contentMarkdown |-> ""], [contentHtml |-> ""], [contentMarkdown |-> "n"],
   [tags |-> <<"u">>]}

ContentWebhookBodies ==
  {[title |-> <<"A">>],
   [title |-> <<"A">>, contentMarkdown |-> "n"],
   [title |-> <<"A">>, contentMarkdown |-> " "],
   [title |-> <<"A">>, contentMarkdown |-> "n", contentHtml |-> "k",
    tags |-> <<"u">>]}

ContentTimes == {1}

NextContent ==
  \/ \E body \in ContentCreateBodies, now \in ContentTimes :
       Passed(AdminCreate(body, now))
  \/ \E id \in Ids, body \in ContentUpdateBodies, now \in ContentTimes :
       Passed(AdminUpdate(id, body, now))
  \/ \E id \in Ids : Passed(AdminDelete(id))
  \/ \E id \in Ids : Passed(AdminGetReq(id))
  \/ \E body \in ContentWebhookBodies, now \in ContentTimes :
       Passed(Webhook(body, now))

SpecContent == Init /\ [][NextContent]_vars

\* titles for generateSlug: letters of both cases, a digit, white space, a
\* hyphen and punctuation, in every order
TitleChars == {"A", "b", "1", " ", "-", "!"}
Titles == UNION {[1..n -> TitleChars] : n \in 1..MaxLen}

InitSlug ==
  /\ store = {}
  /\ nextId = 1
  /\ last \in {[op |-> "title", title |-> t] : t \in Titles}
  /\ inflight = {}
  /\ env = ConfiguredEnv
  /\ hits = NoHits

\* this.generateSlug(data.title)
Slugify ==
  /\ last.op = "title"
  /\ last' = [op |-> "generateSlug", title |-> last.title,
              slug |-> generateSlug(last.title)]
  /\ UNCHANGED <<store, nextId, inflight, env, hits>>

NextSlug == Slugify

SpecSlug == InitSlug /\ [][NextSlug]_vars

\* a request with these headers to one of the admin routes
AdminRequest(headers) ==
  \/ \E body \in AuthCreateBodies, now \in AuthTimes :
       AdminRouter(headers, AdminCreate(body, now))
  \/ \E id \in Ids, body \in AuthUpdateBodies, now \in AuthTimes :
       AdminRouter(headers, AdminUpdate(id, body, now))
  \/ \E id \in Ids : AdminRouter(headers, AdminDelete(id))
  \/ \E query \in AuthQueries : AdminRouter(headers, AdminListReq(query))
  \/ \E id \in Ids : AdminRouter(headers, AdminGetReq(id))

\* a request with these headers to the webhook
WebhookRequest(headers) ==
  \E body \in AuthWebhookBodies, now \in AuthTimes :
    WebhookRouter(headers, Webhook(body, now))

SpecList == InitList /\ [][NextList]_vars

\* ------------------------------------------------------------------ claims
Slugs == {<<"a">>, <<"b">>, <<"c">>, <<>>}

ListQueries ==
  {NoKeys, [page |-> 1, limit |-> 1], [page |-> 2, limit |-> 1], [limit |-> 60],
   [orderBy |-> "title", order |-> "asc"]}

RssQueries == {NoKeys, [limit |-> 1], [limit |-> 100]}

ItemIds(items) == {items[i].id : i \in 1..Len(items)}
ItemStatuses(items) == {items[i].status : i \in 1..Len(items)}

\* C1: no two stored posts have the same slug, whatever sequence of create,
\* update, upsert and delete requests (successful or failing) has run.
C1_SlugUnique ==
  \A r1 \in store : \A r2 \in store : r1.slug = r2.slug => r1 = r2

\* two posts are stored and the last request was refused for its slug
C1_Witness ==
  /\ Cardinality(store) = 2
  /\ last.code = 409

\* C2: in every store state the public list, the public get-by-slug and the
\* RSS feed return only PUBLISHED posts: no DRAFT post is among the items of
\* the list or of the feed, and get-by-slug answers 404 for a DRAFT post.
C2_PublicOnlyPublished ==
  /\ \A q \in ListQueries : \A resp \in PublicList(store, q) :
       resp.code = 200 =>
         /\ ItemStatuses(resp.data.items) \subseteq {"PUBLISHED"}
         /\ \A r \in store : r.status = "DRAFT" => r.id \notin ItemIds(resp.data.items)
  /\ \A q \in RssQueries : \A resp \in RssFeed(store, q) :
       resp.code = 200 =>
         /\ ItemStatuses(resp.items) \subseteq {"PUBLISHED"}
         /\ \A r \in store : r.status = "DRAFT" => r.id \notin ItemIds(resp.items)
  /\ \A slug \in Slugs :
       LET resp == PublicGetBySlug(store, slug) IN
       /\ resp.code = 200 => resp.data.status = "PUBLISHED"
       /\ (\E r \in store : r.slug = slug /\ r.status = "DRAFT") => resp.code = 404

\* a DRAFT and a PUBLISHED post are stored; the list and the feed hold the
\* PUBLISHED one alone and get-by-slug hides the DRAFT one
C2_Witness ==
  \E d \in store : \E p \in store :
    /\ d.status = "DRAFT" /\ p.status = "PUBLISHED"
    /\ \A resp \in PublicList(store, NoKeys) :
         resp.code = 200 /\ ItemIds(resp.data.items) = {p.id}
    /\ \A resp \in RssFeed(store, NoKeys) :
         resp.code = 200 /\ ItemIds(resp.items) = {p.id}
    /\ PublicGetBySlug(store, d.slug).code = 404
    /\ PublicGetBySlug(store, p.slug).code = 200

\* C3: a create whose explicit or title-derived slug is the slug of a stored
\* post is answered 409 and leaves the store unchanged; a create with an
\* explicit slug that no stored post has succeeds and stores one more post.
C3_CreateConflict ==
  [][\A body \in SlugCreateBodies : \A now \in SlugTimes :
       (AdminCreate(body, now) /\ ValidCreate(body)) =>
         LET slug == IF Truthy(body, "slug") THEN body.slug ELSE generateSlug(body.title) IN
         /\ (\E r \in store : r.slug = slug) =>
              last'.code = 409 /\ store' = store
         /\ (Truthy(body, "slug") /\ ~\E r \in store : r.slug = body.slug) =>
              /\ last'.code = 201
              /\ \E r \in store' : r.slug = body.slug /\ store' = store \cup {r}
              /\ Cardinality(store') = Cardinality(store) + 1
    ]_vars

\* a create has just been refused with 409 while a post is stored
C3_Witness ==
  /\ last = Response("create", 409)
  /\ store # {}

\* C7: update and delete of an id that no stored post has are answered 404
\* and leave every stored post unchanged.
C7_UnknownId ==
  [][/\ \A id \in Ids : \A body \in SlugUpdateBodies : \A now \in SlugTimes :
          (AdminUpdate(id, body, now) /\ ValidUpdate(body) /\ ~\E r \in store : r.id = id) =>
            last'.code = 404 /\ store' = store
     /\ \A id \in Ids :
          (AdminDelete(id) /\ ~\E r \in store : r.id = id) =>
            last'.code = 404 /\ store' = store
    ]_vars

\* a delete of an unknown id has just been answered 404 while posts are stored
C7_Witness ==
  /\ last = Response("delete", 404)
  /\ store # {}

\* C8: update(id, {slug: s}) of a stored post is answered 409 and changes
\* nothing when another post holds s; it succeeds, and the post then has slug
\* s, when s is the post's own slug or the slug of no post.
C8_UpdateSlug ==
  [][\A id \in Ids : \A body \in SlugUpdateBodies : \A now \in SlugTimes :
       (AdminUpdate(id, body, now) /\ Truthy(body, "slug") /\ \E r \in store : r.id = id) =>
         IF \E r \in store : r.slug = body.slug /\ r.id # id
         THEN last'.code = 409 /\ store' = store
         ELSE /\ last'.code = 200
              /\ \E r \in store' : r.id = id /\ r.slug = body.slug
              /\ Cardinality(store') = Cardinality(store)
    ]_vars

\* an update has just been refused with 409 while two posts are stored
C8_Witness ==
  /\ last = Response("update", 409)
  /\ Cardinality(store) = 2

\* the columns a request can set, slug apart
MutableFields == {"title", "summary", "contentMarkdown", "contentHtml", "imageUrl",
                  "tags", "sourceUrl", "author", "publishedAt", "status"}

\* C4: a webhook upsert that repeats the payload of the upsert answered just
\* before it leaves exactly one stored post with the payload's slug, adds no
\* post, and leaves in that post the values the payload of this latest call
\* determines.
C4_UpsertIdempotent ==
  [][\A body \in FieldWebhookBodies : \A now \in FieldTimes :
       (Webhook(body, now) /\ last = WebhookResponse(200, body)) =>
         LET data == WebhookData(body)
             want == UpsertCreateData(data, now) IN
         /\ last'.code = 200
         /\ Cardinality({r \in store' : r.slug = UpsertSlug(data)}) = 1
         /\ Cardinality(store') = Cardinality(store)
         /\ \A r \in store' : r.slug = UpsertSlug(data) =>
              \A f \in MutableFields : r[f] = want[f]
    ]_vars

\* C5: a webhook upsert for a slug that a stored post has leaves in that post,
\* for every mutable field, the value the payload alone determines (the value
\* a create from the same payload stores), whatever the post held before.
C5_UpsertOverwrites ==
  [][\A body \in FieldWebhookBodies : \A now \in FieldTimes :
       (/\ Webhook(body, now)
        /\ ValidCreate(body)
        /\ HasSlug(store, UpsertSlug(WebhookData(body)))) =>
         LET data == WebhookData(body)
             want == UpsertCreateData(data, now) IN
         /\ last'.code = 200
         /\ \E r \in store' :
              /\ r.slug = UpsertSlug(data)
              /\ \A f \in MutableFields : r[f] = want[f]
    ]_vars

C9_UpdateFrame ==
  [][\A id \in Ids : \A body \in FieldUpdateBodies : \A now \in FieldTimes :
       (AdminUpdate(id, body, now) /\ ValidUpdate(body) /\ HasId(store, id)) =>
         LET old == RowById(store, id)
             new == RowById(store', id)
             given(f, byKey) == IF byKey THEN Has(body, f) ELSE Truthy(body, f)
             value(f) == IF f = "tags" THEN stringifyTags(body.tags) ELSE body[f]
         IN
         /\ last'.code = 200
         /\ HasId(store', id)
         /\ store' \ {new} = store \ {old}
         /\ \E byKey \in BOOLEAN :
              /\ \A f \in (MutableFields \cup {"slug"}) \ {"contentHtml"} :
                   new[f] = IF given(f, byKey) THEN value(f) ELSE old[f]
              /\ new.contentHtml =
                   IF given("contentHtml", byKey) THEN body.contentHtml
                   ELSE IF given("contentMarkdown", byKey) THEN Marked(body.contentMarkdown)
                   ELSE old.contentHtml
    ]_vars

\* the status a list request names: the public route lists PUBLISHED posts,
\* the admin route the posts of the status in its query
ListedStatus(resp) ==
  IF resp.op = "publicList" THEN "PUBLISHED" ELSE resp.query.status

\* C10: the answer to a list request for page p >= 1 and a limit has the page
\* number p, min(L, max(0, total - offset)) items and hasMore = (offset + L <
\* total) where L = clamp(limit, 1, 50), offset = (p - 1) * L and total is the
\* number of posts with the listed status.
C10_ListWindow ==
  (\/ last.op = "publicList"
   \/ last.op = "adminList" /\ Has(last.query, "status") /\ last.query.status # "") =>
    LET page == ParseIntOr(last.query, "page", 1)
        limit == ParseIntOr(last.query, "limit", DefaultLimit)
        L == Max(1, Min(limit, MaxLimit))
        offset == (page - 1) * L
        total == Cardinality({r \in store : r.status = ListedStatus(last)})
    IN page >= 1 =>
         /\ last.code = 200
         /\ last.data.page = page
         /\ last.data.total = total
         /\ Len(last.data.items) = Min(L, Max(0, total - offset))
         /\ last.data.hasMore = (offset + L < total)

C12_AtMostFifty ==
  (/\ last.op \in {"publicList", "adminList", "rss"}
   /\ last.code = 200
   /\ Has(last.query, "limit")
   /\ last.query.limit > MaxLimit) =>
    Len(IF last.op = "rss" THEN last.items ELSE last.data.items) <= MaxLimit

\* C13: the admin list asked without a status counts every stored post in its
\* total and, when the page holds the whole store, returns every stored post,
\* DRAFT as well as PUBLISHED.
C13_AdminListAll ==
  (last.op = "adminList" /\ last.code = 200 /\ ~Has(last.query, "status")) =>
    /\ last.data.total = Cardinality(store)
    /\ (/\ ParseIntOr(last.query, "page", 1) = 1
        /\ ParseIntOr(last.query, "limit", DefaultLimit) >= Cardinality(store)) =>
         ItemIds(last.data.items) = {r.id : r \in store}

\* the headers carry 'Authorization: Bearer <configured admin token>'
CarriesAdminToken(headers) ==
  /\ Has(headers, "authorization")
  /\ Has(env, "ADMIN_BEARER_TOKEN")
  /\ headers.authorization = Bearer \o env.ADMIN_BEARER_TOKEN

\* the headers carry an x-n8n-secret equal to the configured webhook secret
CarriesWebhookSecret(headers) ==
  /\ Has(headers, "x-n8n-secret")
  /\ Has(env, "N8N_WEBHOOK_SECRET")
  /\ headers["x-n8n-secret"] = env.N8N_WEBHOOK_SECRET

Written(body) == RowBySlug(store', UpsertSlug(body))

\* what C16 asks of the stored contentHtml, "supplied" being read as "the key
\* is present" (byKey) or as "present and not empty"
ContentAsClaimed(body, row, byKey) ==
  LET given(f) == IF byKey THEN Has(body, f) ELSE Truthy(body, f) IN
  /\ (given("contentMarkdown") /\ ~given("contentHtml")) =>
       /\ row.contentHtml = Marked(body.contentMarkdown)
       /\ row.contentHtml \notin {"", Null}
  /\ (given("contentMarkdown") /\ given("contentHtml")) =>
       row.contentHtml = body.contentHtml

\* C16: after a successful create, and after a webhook upsert, the stored
\* contentHtml is the non-empty rendering of the markdown when only markdown
\* was supplied, and the supplied contentHtml when both were supplied, under
\* one of the two readings of "supplied".
C16_ContentDerived ==
  [][/\ \A body \in ContentCreateBodies : \A now \in ContentTimes :
          (AdminCreate(body, now) /\ last'.code = 201) =>
            \E byKey \in BOOLEAN : ContentAsClaimed(body, Written(body), byKey)
     /\ \A body \in ContentWebhookBodies : \A now \in ContentTimes :
          (Webhook(body, now) /\ last'.code = 200) =>
            \E byKey \in BOOLEAN : ContentAsClaimed(body, Written(body), byKey)
    ]_vars

\* C17: every stored post has a non-empty contentMarkdown or a non-empty
\* contentHtml.
C17_ContentPopulated ==
  \A r \in store : r.contentMarkdown \notin {"", Null} \/ r.contentHtml \notin {"", Null}

\* C18: after a successful create, getById of the created post returns the
\* tags of the request, in order and content, and the empty sequence when the
\* request had no tags.
C18_TagsRoundTrip ==
  [][\A body \in ContentCreateBodies : \A now \in ContentTimes :
       (AdminCreate(body, now) /\ last'.code = 201) =>
         LET resp == AdminGet(store', nextId) IN
         /\ resp.code = 200
         /\ resp.data.tags = IF Has(body, "tags") THEN body.tags ELSE <<>>
    ]_vars

\* getById has just returned a post created with the tags "," "]" ""
C18_Witness ==
  /\ last.op = "adminGet"
  /\ last.code = 200
  /\ last.data.tags = <<",", "]", "">>
  /\ \E r \in store : r.id = last.data.id /\ r.tags = stringifyTags(last.data.tags)

\* the characters of a URL-safe slug: [a-z0-9-]
SlugChars ==
  {LowerCase[i] : i \in 1..Len(LowerCase)} \cup {Digits[i] : i \in 1..Len(Digits)}
  \cup {"-"}

\* C19: the slug derived from a title holds only characters of [a-z0-9-],
\* neither begins nor ends with a hyphen and has no two hyphens in a row.
\* (It is a function of the title: generateSlug reads nothing else.)
C19_SlugShape ==
  (last.op = "generateSlug") =>
    LET slug == last.slug IN
    /\ slug = generateSlug(last.title)
    /\ \A i \in 1..Len(slug) : slug[i] \in SlugChars
    /\ slug # <<>> => slug[1] # "-" /\ slug[Len(slug)] # "-"
    /\ \A i \in 1..(Len(slug) - 1) : ~(slug[i] = "-" /\ slug[i + 1] = "-")

\* the ids of the stored posts
StoredIds(s) == {r.id : r \in s}

\* C20: an update, whatever its body, leaves the ids of the stored posts as
\* they were and changes no post but the one with its id; an upsert for a
\* slug that a post has leaves the ids as they were and that slug with the
\* same id; and the id of a stored post is lost only by a delete of that id.
C20_IdImmutable ==
  [][/\ \A id \in Ids : \A body \in SlugUpdateBodies : \A now \in SlugTimes :
          AdminUpdate(id, body, now) =>
            /\ StoredIds(store') = StoredIds(store)
            /\ HasId(store, id) =>
                 store' \ {RowById(store', id)} = store \ {RowById(store, id)}
     /\ \A body \in SlugWebhookBodies : \A now \in SlugTimes :
          (/\ Webhook(body, now)
           /\ ValidCreate(body)
           /\ HasSlug(store, UpsertSlug(WebhookData(body)))) =>
            /\ StoredIds(store') = StoredIds(store)
            /\ RowBySlug(store', UpsertSlug(WebhookData(body))).id
                 = RowBySlug(store, UpsertSlug(WebhookData(body))).id
     /\ \A r \in store : r.id \in StoredIds(store') \/ AdminDelete(r.id)
    ]_vars

\* an update has just given post 1, created with title "A", the slug "b"
C20_Witness ==
  /\ last = Response("update", 200)
  /\ \E r \in store : r.id = 1 /\ r.title = <<"A">> /\ r.slug = <<"b">>
  /\ Cardinality(store) = 2

\* C21: the status of a stored post changes in a step only when the step is
\* an update of that post whose body carries a status; in particular a
\* webhook ingestion, whose payload names no status, leaves the status of
\* the post it writes to as it was.
C21_StatusExplicit ==
  [][\A r \in store : \A r2 \in store' :
       (r2.id = r.id /\ r2.status # r.status) =>
         \E body \in SlugUpdateBodies, now \in SlugTimes :
           Has(body, "status") /\ AdminUpdate(r.id, body, now)
    ]_vars

\* the queries of the lists, with and without a status
GoneQueries == ListQueries \cup {[status |-> ""], [status |-> "DRAFT"]}

\* no read and no delete finds a post with this id
Gone(s, id) ==
  /\ getPostById(s, id) = {}
  /\ AdminGet(s, id).code = 404
  /\ \A query \in ListQueries : \A resp \in PublicList(s, query) :
       resp.code = 200 /\ id \notin ItemIds(resp.data.items)
  /\ \A query \in GoneQueries : \A resp \in AdminList(s, query) :
       resp.code = 200 /\ id \notin ItemIds(resp.data.items)
  /\ \A query \in RssQueries : \A resp \in RssFeed(s, query) :
       resp.code = 200 /\ id \notin ItemIds(resp.items)
  /\ \A slug \in Slugs :
       /\ \A p \in getPostBySlug(s, slug) : p.id # id
       /\ PublicGetBySlug(s, slug).code = 200 => PublicGetBySlug(s, slug).data.id # id
  /\ deletePost(s, id).err = "Record to delete does not exist"

\* C22: a post whose id is not stored is found by no read (get by id, the
\* lists, the feed, get by slug) and a delete of it fails as not found; a
\* successful delete removes the id and frees the slug, so that a create
\* with that slug succeeds; and a step stores a post only under an id that
\* is stored already or under the next fresh id, so a deleted id never returns.
C22_DeletedIsGone ==
  /\ [](/\ \A id \in Ids : ~HasId(store, id) => Gone(store, id)
        /\ \A r \in store : r.id < nextId)
  /\ [][/\ \A id \in Ids :
             (AdminDelete(id) /\ last'.code = 200) =>
               /\ HasId(store, id) /\ ~HasId(store', id)
               /\ store' = store \ {RowById(store, id)}
               /\ createPost(store', [title |-> RowById(store, id).title,
                                      slug |-> RowById(store, id).slug],
                             nextId, 1).err = ""
        /\ \A r2 \in store' :
             r2.id \in StoredIds(store) \/ (r2.id = nextId /\ nextId' > nextId)
        /\ nextId' >= nextId
       ]_vars

\* a delete has just removed one of two stored posts
C22_Witness ==
  /\ last = Response("delete", 200)
  /\ nextId = 3
  /\ Cardinality(store) = 1

\* bodies whose slug is derived from the title and bodies that supply one,
\* with and without characters outside [a-z0-9-]
SafeCreateBodies ==
  {[title |-> <<"A", " ", "b">>, contentMarkdown |-> "m"],
   [title |-> <<"A">>, contentMarkdown |-> "m", slug |-> <<"A", " ", "b">>],
   [title |-> <<"b">>, contentMarkdown |-> "m", slug |-> <<"b", "-", "1">>]}

SafeUpdateBodies == {[slug |-> <<"c", "!">>], [slug |-> <<"c">>], [title |-> <<"C">>]}

SafeWebhookBodies ==
  {[title |-> <<"C", "!">>, contentMarkdown |-> "m"],
   [title |-> <<"A">>, contentMarkdown |-> "m", slug |-> <<"P", "!">>]}

SafeTimes == {1}

NextSafe ==
  \/ \E body \in SafeCreateBodies, now \in SafeTimes : Passed(AdminCreate(body, now))
  \/ \E id \in Ids, body \in SafeUpdateBodies, now \in SafeTimes :
       Passed(AdminUpdate(id, body, now))
  \/ \E id \in Ids : Passed(AdminDelete(id))
  \/ \E body \in SafeWebhookBodies, now \in SafeTimes : Passed(Webhook(body, now))

SpecSafe == Init /\ [][NextSafe]_vars

\* C23: the slug of every stored post holds only characters of [a-z0-9-],
\* whether it was derived from the title or supplied in the body of a
\* create, an update or a webhook request.
C23_SlugUrlSafe ==
  \A r \in store : \A i \in 1..Len(r.slug) : r.slug[i] \in SlugChars

\* the ids whose row differs between two states of the table, a row that is
\* only in one of them included
Touched(s, t) ==
  {id \in StoredIds(s) \cup StoredIds(t) : FindUniqueById(s, id) # FindUniqueById(t, id)}

\* C24: every create, update, delete and upsert touches at most one row:
\* the rows of all other ids are the same after the step as before it, and
\* a step that answers with a failure leaves the whole table as it was.
C24_OneRow ==
  [][/\ Cardinality(Touched(store, store')) <= 1
     /\ last'.code \notin {200, 201} => store' = store
    ]_vars

\* a create has just failed on a slug that is taken, with two posts stored
C24_Witness ==
  /\ last = Response("create", 409)
  /\ Cardinality(store) = 2

\* C25: whatever integer limit a list request carries (0 and negative values
\* included), the request is answered and its answer is the one of some page
\* size L in 1..50: the items are min(L, max(0, total - offset)) in number
\* and hasMore is (offset + L < total), with offset = (page - 1) * L.
C25_PageSizeInRange ==
  (last.op \in {"publicList", "adminList"}) =>
    LET page == ParseIntOr(last.query, "page", 1) IN
    /\ last.code = 200
    /\ \E L \in 1..MaxLimit :
         LET offset == (page - 1) * L
             total == last.data.total
         IN /\ Len(last.data.items) = Min(L, Max(0, total - offset))
            /\ last.data.hasMore = (offset + L < total)

\* C26: a webhook request for a slug that a post has, with no tags in its
\* payload, leaves that post with the JSON text of the empty list as its
\* tags, so that it is read back with an empty tags sequence, whatever tags
\* the post had.
C26_UpsertClearsTags ==
  [][\A body \in ContentWebhookBodies : \A now \in ContentTimes :
       (/\ Webhook(body, now)
        /\ ValidCreate(body)
        /\ ~Has(body, "tags")
        /\ HasSlug(store, UpsertSlug(WebhookData(body)))) =>
         /\ last'.code = 200
         /\ RowBySlug(store', UpsertSlug(WebhookData(body))).tags = stringifyTags(<<>>)
         /\ \A p \in getPostBySlug(store', UpsertSlug(WebhookData(body))) : p.tags = <<>>
    ]_vars

\* a webhook request without tags and without content has been answered for
\* a post that was stored before it (the post has the HTML of its creation)
C26_Witness ==
  /\ last.op = "webhook"
  /\ last.code = 200
  /\ last.body = [title |-> <<"A">>]
  /\ \E r \in store :
       /\ r.slug = <<"a">>
       /\ r.contentHtml = "<p>m</p>"
       /\ r.tags = stringifyTags(<<>>)

\* ------------------------------------------------- getPosts as two queries
\* the prologue of getPosts: the defaults, maxLimit, skip and where
getPostsPlan(options) ==
  LET status == IF Has(options, "status") THEN options.status ELSE "PUBLISHED"
      page == IF Has(options, "page") THEN options.page ELSE 1
      limit == IF Has(options, "limit") THEN options.limit ELSE DefaultLimit
      maxLimit == Min(limit, MaxLimit)
  IN [page |-> page,
      maxLimit |-> maxLimit,
      skip |-> (page - 1) * maxLimit,
      where |-> IF status # "" THEN [status |-> status] ELSE <<>>,
      orderBy |-> IF Has(options, "orderBy") THEN options.orderBy ELSE "publishedAt",
      order |-> IF Has(options, "order") THEN options.order ELSE "desc"]

\* the options GET /api/posts passes to getPosts
PublicListOptions(query) ==
  [status |-> "PUBLISHED",
   page |-> ParseIntOr(query, "page", 1),
   limit |-> Min(ParseIntOr(query, "limit", 10), 50),
   orderBy |-> IF Has(query, "orderBy") THEN query.orderBy ELSE "publishedAt",
   order |-> IF Has(query, "order") THEN query.order ELSE "desc"]

PlanFindMany(s, plan) ==
  FindMany(s, plan.where, plan.skip, plan.maxLimit, plan.orderBy, plan.order)

\* Promise.all([findMany, count]) sends two statements, outside any
\* transaction; the store answers them in either order and other requests'
\* statements may run between them.  The handler up to the first answer:
PublicListBegin(query, first) ==
  /\ inflight = {}
  /\ UNCHANGED <<store, nextId, last>>
  /\ LET plan == getPostsPlan(PublicListOptions(query)) IN
     IF first = "findMany"
     THEN \E f \in PlanFindMany(store, plan) :
            inflight' = {[query |-> query, first |-> first, found |-> f]}
     ELSE inflight' = {[query |-> query, first |-> first,
                        total |-> Count(store, plan.where)]}

\* ... and from the second answer to the response
PublicListEnd ==
  \E f \in inflight :
    LET plan == getPostsPlan(PublicListOptions(f.query))
        scans == IF f.first = "findMany" THEN {f.found} ELSE PlanFindMany(store, plan)
        total == IF f.first = "count" THEN f.total ELSE Count(store, plan.where)
    IN /\ \E found \in scans :
            last' = ReadResponse("publicList", f.query,
                      IF found.err # "" THEN [code |-> 500]
                      ELSE [code |-> 200,
                            data |-> [err |-> "",
                                      items |-> MapTags(found.rows),
                                      page |-> plan.page,
                                      total |-> total,
                                      hasMore |-> plan.skip + plan.maxLimit < total]])
       /\ inflight' = {}
       /\ UNCHANGED <<store, nextId>>

\* a list request while posts are created, deleted and change status
ScanQueries == {NoKeys, [page |-> 2, limit |-> 1]}
ScanCreateBodies ==
  {[title |-> <<"A">>, contentMarkdown |-> "m"],
   [title |-> <<"c">>, contentMarkdown |-> "m", status |-> "DRAFT"]}
ScanUpdateBodies == {[status |-> "DRAFT"], [status |-> "PUBLISHED"]}
ScanTimes == {1}

NextScan ==
  \/ \E query \in ScanQueries, first \in {"findMany", "count"} :
       Passed(PublicListBegin(query, first))
  \/ Passed(PublicListEnd)
  \/ \E body \in ScanCreateBodies, now \in ScanTimes : Passed(AdminCreate(body, now))
  \/ \E id \in Ids, body \in ScanUpdateBodies, now \in ScanTimes :
       Passed(AdminUpdate(id, body, now))
  \/ \E id \in Ids : Passed(AdminDelete(id))

SpecScan == Init /\ [][NextScan]_vars

\* C27: the answer to a list request is that of one snapshot of the store,
\* also when a create, a delete or a change of status commits between its
\* scan and its count: the items are min(L, max(0, total - offset)) in
\* number and hasMore is false only when offset plus the number of items
\* reaches the total (L = clamp(limit, 1, 50), offset = (page - 1) * L).
C27_ListSnapshot ==
  (last.op = "publicList" /\ last.code = 200) =>
    LET page == ParseIntOr(last.query, "page", 1)
        L == Max(1, Min(ParseIntOr(last.query, "limit", DefaultLimit), MaxLimit))
        offset == (page - 1) * L
    IN /\ Len(last.data.items) = Min(L, Max(0, last.data.total - offset))
       /\ ~last.data.hasMore => offset + Len(last.data.items) >= last.data.total

\* ------------------------------------------------ one client, page by page
\* stores of PUBLISHED posts that tie on publishedAt, updatedAt and title, or
\* differ on all three, and one DRAFT post
PageRow(i, tied, status) ==
  CreateData([title |-> IF tied THEN ListTitle(0) ELSE ListTitle(i),
              slug |-> ListTitle(i), contentMarkdown |-> "m",
              publishedAt |-> IF tied THEN 1 ELSE i, status |-> status],
             1)
  @@ InsertDefaults(i, IF tied THEN 1 ELSE i)

PageStore(n, tied) ==
  {PageRow(i, tied, "PUBLISHED") : i \in 1..n} \cup {PageRow(n + 1, tied, "DRAFT")}

PageCounts == {0, 2, 3}

PageQueries ==
  {[limit |-> l, orderBy |-> ob, order |-> o] :
     l \in {1, 2}, ob \in {"publishedAt", "updatedAt", "title"}, o \in {"asc", "desc"}}

InitPages ==
  /\ \E n \in PageCounts, tied \in BOOLEAN :
       /\ store = PageStore(n, tied)
       /\ nextId = n + 2
  /\ last = Response("none", 0)
  /\ inflight = {}
  /\ env = ConfiguredEnv
  /\ hits = NoHits

\* the number of pages of `total` posts, `limit` to a page
PageCount(total, limit) == (total + limit - 1) \div limit

ItemIdSeq(items) == [i \in 1..Len(items) |-> items[i].id]

\* the client asks for page 1
PageFirst(query) ==
  /\ last.op = "none"
  /\ UNCHANGED <<store, nextId, inflight>>
  /\ \E resp \in PublicList(store, [page |-> 1] @@ query) :
       /\ resp.code = 200
       /\ last' = [op |-> "pages", code |-> 200, query |-> query, page |-> 1,
                   total |-> resp.data.total, seen |-> ItemIdSeq(resp.data.items)]

\* ... and then for the next page with the same filter, ordering and limit,
\* up to the last page
PageNext ==
  /\ last.op = "pages"
  /\ last.page < PageCount(last.total, last.query.limit)
  /\ UNCHANGED <<store, nextId, inflight>>
  /\ \E resp \in PublicList(store, [page |-> last.page + 1] @@ last.query) :
       /\ resp.code = 200
       /\ last' = [last EXCEPT !.page = @ + 1,
                               !.seen = @ \o ItemIdSeq(resp.data.items)]

NextPages ==
  \/ \E query \in PageQueries : Passed(PageFirst(query))
  \/ Passed(PageNext)

SpecPages == InitPages /\ [][NextPages]_vars

\* C28: once a client has asked for the pages 1..ceil(total/L) of the list
\* with one filter, ordering and limit, no write in between, the items it
\* was given are the PUBLISHED posts of the store, each exactly once, also
\* when posts tie on the key of the ordering.
C28_PagesCoverOnce ==
  (/\ last.op = "pages"
   /\ last.page >= PageCount(last.total, last.query.limit)) =>
    /\ Len(last.seen) = Cardinality({r \in store : r.status = "PUBLISHED"})
    /\ {last.seen[i] : i \in 1..Len(last.seen)}
         = {r.id : r \in {q \in store : q.status = "PUBLISHED"}}

\* C29: while ADMIN_BEARER_TOKEN is unset or empty, every request to an admin
\* route, whatever its headers ('Authorization: Bearer ' followed by nothing
\* included), is answered by the middleware (500, or 429 past the rate
\* limit), never by a handler, and leaves the store as it was; and likewise
\* every request to the webhook while N8N_WEBHOOK_SECRET is unset or empty.
C29_FailsClosed ==
  [][/\ \A headers \in AdminHeaders :
          (AdminRequest(headers) /\ ~Truthy(env, "ADMIN_BEARER_TOKEN")) =>
            /\ last' = Response("adminRouter",
                                IF hits.admin >= AdminRateMax THEN 429 ELSE 500)
            /\ store' = store /\ nextId' = nextId
     /\ \A headers \in WebhookHeaders :
          (WebhookRequest(headers) /\ ~Truthy(env, "N8N_WEBHOOK_SECRET")) =>
            /\ last' = Response("webhookRouter",
                                IF hits.webhook >= WebhookRateMax THEN 429 ELSE 500)
            /\ store' = store /\ nextId' = nextId
    ]_vars

\* with the empty string as the configured token, a request to an admin
\* route has just been refused by the middleware
C29_Witness ==
  /\ Has(env, "ADMIN_BEARER_TOKEN")
  /\ env.ADMIN_BEARER_TOKEN = <<>>
  /\ last = Response("adminRouter", 500)
  /\ hits.admin >= 1

\* data for createPost and upsertPostBySlug: with and without each field,
\* under the slug of the title, an explicit slug and an empty one
EquivData ==
  {Restrict(body, CreateKeys) @@ s :
     body \in FieldCreateBodies \cup FieldWebhookBodies \cup ContentCreateBodies,
     s \in {NoKeys, [slug |-> <<"b">>], [slug |-> <<>>]}}

\* a post, and a table, apart from the generated ids
NoId(post) == Restrict(post, DOMAIN post \ {"id"})
NoIds(s) == {NoId(r) : r \in s}

\* C30: for data whose slug no stored post has, upsertPostBySlug and
\* createPost, from the same store and at the same time, both succeed, leave
\* the same table and return the same post, the generated id apart; and a
\* webhook request for such a slug leaves the table that createPost leaves
\* for the data of the request.
C30_UpsertNewSlugIsCreate ==
  /\ [](\A data \in EquivData : \A now \in FieldTimes :
          ~HasSlug(store, UpsertSlug(data)) =>
            LET created == createPost(store, data, nextId, now)
                upserted == upsertPostBySlug(store, data, nextId + 1, now)
            IN /\ created.err = "" /\ upserted.err = ""
               /\ NoId(created.post) = NoId(upserted.post)
               /\ NoIds(created.store) = NoIds(upserted.store)
               /\ Cardinality(upserted.store) = Cardinality(store) + 1)
  /\ [][\A body \in ContentWebhookBodies : \A now \in ContentTimes :
          (/\ Webhook(body, now)
           /\ ValidCreate(body)
           /\ ~HasSlug(store, UpsertSlug(WebhookData(body)))) =>
            /\ last'.code = 200
            /\ store' = createPost(store, WebhookData(body), nextId, now).store
       ]_vars

\* a webhook request has just stored the only post, markdown and its HTML
C30_Witness ==
  /\ last.op = "webhook"
  /\ last.code = 200
  /\ nextId = 2
  /\ \E r \in store : r.id = 1 /\ r.contentMarkdown = "n" /\ r.contentHtml = "<p>n</p>"

====
